---------------------------- MODULE Spec2Model ----------------------------
(***************************************************************************)
(* Virtual Visiting Card Generator: the in-memory card store and the HTTP  *)
(* handlers of server.js, in its two variants (PDF artifact; SVG artifact  *)
(* with a vCard endpoint).                                                 *)
(*                                                                         *)
(* Strings are sequences of one-character strings, so that trimming,       *)
(* whitespace collapsing, HTML escaping, URL building and splitting are    *)
(* computed and not assumed.  A handler runs atomically up to its `await`  *)
(* (one event-loop turn); a handler suspended at an await sits in          *)
(* `pending` until the QR encoder / renderer settles.                      *)
(***************************************************************************)
EXTENDS Integers, Sequences, FiniteSets, Bags, TLC

(***************************************************************************)
(* Bounds of the model.                                                    *)
(***************************************************************************)
\* how many identifiers crypto.randomUUID() hands out in one run
MaxIds == 2
\* how many handlers may be suspended at an await at the same time
MaxPending == 2
\* the QR encoder's data capacity, scaled to the model's short URLs
QrCapacity == 17

(***************************************************************************)
(* Character strings.                                                      *)
(***************************************************************************)
RECURSIVE Flatten(_)
\* concatenation of a sequence of strings (a template literal)
Flatten(parts) ==
  IF parts = <<>> THEN <<>> ELSE Head(parts) \o Flatten(Tail(parts))

RECURSIVE Join(_, _)
\* Array.prototype.join
Join(lines, sep) ==
  IF lines = <<>> THEN <<>>
  ELSE IF Len(lines) = 1 THEN lines[1]
  ELSE lines[1] \o sep \o Join(Tail(lines), sep)

\* the string p occurs in s
Contains(s, p) ==
  \E i \in 1..(Len(s) - Len(p) + 1) : SubSeq(s, i, i + Len(p) - 1) = p

RECURSIVE Split(_, _)
\* String.prototype.split on a non-empty separator
Split(s, sep) ==
  IF \E i \in 1..(Len(s) - Len(sep) + 1) : SubSeq(s, i, i + Len(sep) - 1) = sep
  THEN LET i == CHOOSE k \in 1..(Len(s) - Len(sep) + 1) :
                  /\ SubSeq(s, k, k + Len(sep) - 1) = sep
                  /\ \A j \in 1..(k - 1) : SubSeq(s, j, j + Len(sep) - 1) # sep
       IN <<SubSeq(s, 1, i - 1)>> \o Split(SubSeq(s, i + Len(sep), Len(s)), sep)
  ELSE <<s>>

\* Array.prototype.pop: the last element
Pop(seq) == seq[Len(seq)]

\* the characters JavaScript's \s and String.prototype.trim treat as whitespace
\* (those of the model's alphabet)
IsSpace(c) == c \in {" ", "\t", "\n", "\r"}

RECURSIVE TrimStart(_)
TrimStart(s) ==
  IF s # <<>> /\ IsSpace(Head(s)) THEN TrimStart(Tail(s)) ELSE s

RECURSIVE TrimEnd(_)
TrimEnd(s) ==
  IF s # <<>> /\ IsSpace(s[Len(s)]) THEN TrimEnd(SubSeq(s, 1, Len(s) - 1)) ELSE s

\* String.prototype.trim
Trim(s) == TrimEnd(TrimStart(s))

RECURSIVE CollapseSpaces(_)
\* .replace(/\s+/g, ' '): every maximal run of whitespace becomes one space
CollapseSpaces(s) ==
  IF s = <<>> THEN <<>>
  ELSE IF IsSpace(Head(s)) THEN <<" ">> \o CollapseSpaces(TrimStart(Tail(s)))
  ELSE <<Head(s)>> \o CollapseSpaces(Tail(s))

RECURSIVE ReplaceAll(_, _, _)
\* .replace(/c/g, rep) for a one-character pattern c
ReplaceAll(s, c, rep) ==
  IF \A i \in 1..Len(s) : s[i] # c THEN s
  ELSE (IF Head(s) = c THEN rep ELSE <<Head(s)>>) \o ReplaceAll(Tail(s), c, rep)

(***************************************************************************)
(* Request values.  A body field is absent (undefined) or a string.        *)
(***************************************************************************)
Undefined == [defined |-> FALSE, chars |-> <<>>]
Str(s) == [defined |-> TRUE, chars |-> s]

\* value || '' followed by String(...)
OrEmpty(value) == IF value.defined /\ value.chars # <<>> THEN value.chars ELSE <<>>

\* sanitizeInput without .trim().replace(/\s+/g, ' '): what a handler would
\* store and validate if the normalization were left out
sanitizeInputNoTrim(value) == OrEmpty(value)

\* sanitizeInput with .replace(/\s+/g, ' ') but without the trim
sanitizeInputCollapseOnly(value) == CollapseSpaces(OrEmpty(value))

\* sanitizeInput with the trim but without .replace(/\s+/g, ' ')
sanitizeInputTrimOnly(value) == Trim(OrEmpty(value))

\* String(value || '').trim().replace(/\s+/g, ' ')
sanitizeInput(value) == CollapseSpaces(Trim(OrEmpty(value)))

escapeHtml(value) ==
  ReplaceAll(ReplaceAll(ReplaceAll(ReplaceAll(ReplaceAll(value,
    "&", <<"&", "a", "m", "p", ";">>),
    "<", <<"&", "l", "t", ";">>),
    ">", <<"&", "g", "t", ";">>),
    "\"", <<"&", "q", "u", "o", "t", ";">>),
    "'", <<"&", "#", "3", "9", ";">>)

FirstNameRequired == <<"F", "i", "r", "s", "t", " ", "n", "a", "m", "e", " ", "i", "s", " ", "r", "e", "q", "u", "i", "r", "e", "d", ".">>
LastNameRequired == <<"L", "a", "s", "t", " ", "n", "a", "m", "e", " ", "i", "s", " ", "r", "e", "q", "u", "i", "r", "e", "d", ".">>
DesignationRequired == <<"D", "e", "s", "i", "g", "n", "a", "t", "i", "o", "n", " ", "i", "s", " ", "r", "e", "q", "u", "i", "r", "e", "d", ".">>

\* a validation that stops at the first missing field
validateFirstMissing(body) ==
  LET firstName == sanitizeInput(body.firstName)
      lastName == sanitizeInput(body.lastName)
      designation == sanitizeInput(body.designation)
      errors == IF firstName = <<>> THEN <<FirstNameRequired>>
                ELSE IF lastName = <<>> THEN <<LastNameRequired>>
                ELSE IF designation = <<>> THEN <<DesignationRequired>>
                ELSE <<>>
  IN [firstName |-> firstName, lastName |-> lastName,
      designation |-> designation, errors |-> errors]

\* a validation that reports nothing
validateNothing(body) ==
  [firstName |-> sanitizeInput(body.firstName), lastName |-> sanitizeInput(body.lastName),
   designation |-> sanitizeInput(body.designation), errors |-> <<>>]

validateCardFields(body) ==
  LET firstName == sanitizeInput(body.firstName)
      lastName == sanitizeInput(body.lastName)
      designation == sanitizeInput(body.designation)
      errors == (IF firstName = <<>> THEN <<FirstNameRequired>> ELSE <<>>)
             \o (IF lastName = <<>> THEN <<LastNameRequired>> ELSE <<>>)
             \o (IF designation = <<>> THEN <<DesignationRequired>> ELSE <<>>)
  IN [firstName |-> firstName, lastName |-> lastName,
      designation |-> designation, errors |-> errors]


(***************************************************************************)
(* URLs.                                                                   *)
(***************************************************************************)
\* `${req.protocol}://${req.get('host')}`
getBaseUrl(req) == Flatten(<<req.protocol, <<":", "/", "/">>, req.host>>)

CardPath == <<"/", "c", "a", "r", "d", "/">>

\* `${getBaseUrl(req)}/card/${id}`
CardUrlOf(req, id) == Flatten(<<getBaseUrl(req), CardPath, id>>)

(***************************************************************************)
(* The QR encoder (external).  It is deterministic in its input and        *)
(* rejects data beyond its capacity; the image is kept as the data and     *)
(* options it was made from.                                               *)
(***************************************************************************)
QrFits(text) == Len(text) <= QrCapacity

\* an encoder that hands back an image whatever the data
QRCode_toBufferFallback(text, width) ==
  [ok |-> TRUE,
   image |-> [form |-> "png", data |-> <<>>, margin |-> 1, width |-> width]]

\* QRCode.toBuffer(text, { type: 'png', margin: 1, width })
QRCode_toBuffer(text, width) ==
  [ok |-> QrFits(text),
   image |-> [form |-> "png", data |-> text, margin |-> 1, width |-> width]]

\* QRCode.toDataURL(text, { margin: 1, width })
QRCode_toDataURL(text, width) ==
  [ok |-> QrFits(text),
   image |-> [form |-> "dataurl", data |-> text, margin |-> 1, width |-> width]]

(***************************************************************************)
(* HTML pages.  A page is its <title> and the values placed in its body.   *)
(***************************************************************************)
renderPage(title, content) == [title |-> title, content |-> content]

FormTitle == <<"V", "i", "r", "t", "u", "a", "l", " ", "V", "i", "s", "i", "t", "i", "n", "g", " ", "C", "a", "r", "d", " ", "G", "e", "n", "e", "r", "a", "t", "o", "r">>
CardNotFoundTitle == <<"C", "a", "r", "d", " ", "N", "o", "t", " ", "F", "o", "u", "n", "d">>
PageNotFoundTitle == <<"P", "a", "g", "e", " ", "N", "o", "t", " ", "F", "o", "u", "n", "d">>
ServerErrorTitle == <<"S", "e", "r", "v", "e", "r", " ", "E", "r", "r", "o", "r">>
CardTitleSuffix == <<" ", "-", " ", "V", "i", "s", "i", "t", "i", "n", "g", " ", "C", "a", "r", "d">>

\* renderFormPage(errors = [], values = {}); values holds strings
renderFormPage(errors, values) ==
  renderPage(FormTitle,
    [kind |-> "form",
     errors |-> [i \in 1..Len(errors) |-> escapeHtml(errors[i])],
     firstName |-> escapeHtml(values.firstName),
     lastName |-> escapeHtml(values.lastName),
     designation |-> escapeHtml(values.designation)])

NoValues == [firstName |-> <<>>, lastName |-> <<>>, designation |-> <<>>]

\* the page getCardOr404 sends
CardNotFoundPage(id) ==
  renderPage(CardNotFoundTitle, [kind |-> "card-not-found", id |-> escapeHtml(id)])

\* the page of the 404 middleware
PageNotFoundPage == renderPage(PageNotFoundTitle, [kind |-> "page-not-found"])

\* the page of the error-handling middleware
ServerErrorPage == renderPage(ServerErrorTitle, [kind |-> "server-error"])

\* the preview page of app.get('/card/:id')
CardPage(v, card) ==
  renderPage(Flatten(<<card.firstName, <<" ">>, card.lastName, CardTitleSuffix>>),
    [kind |-> "card",
     h1 |-> Flatten(<<escapeHtml(card.firstName), <<" ">>, escapeHtml(card.lastName)>>),
     designation |-> escapeHtml(card.designation),
     idLabel |-> escapeHtml(card.id),
     qrSrc |-> Flatten(<<CardPath, card.id, <<"/", "q", "r", ".", "p", "n", "g">>>>),
     qrAlt |-> Flatten(<<escapeHtml(card.firstName), <<" ">>, escapeHtml(card.lastName)>>),
     downloadHref |-> Flatten(<<CardPath, card.id, <<"/", "d", "o", "w", "n", "l", "o", "a", "d">>>>),
     vcardHref |-> IF v = "svg"
                   THEN Flatten(<<CardPath, card.id, <<"/", "c", "o", "n", "t", "a", "c", "t", ".", "v", "c", "f">>>>)
                   ELSE <<>>])

(***************************************************************************)
(* Artifacts.  An artifact is its format and what is drawn into it.        *)
(***************************************************************************)
Brand == <<"A", "C", "M", "E", " ", "C", "O">>

\* generatePdf(card, cardUrl): rejects when QRCode.toBuffer rejects.  `now`
\* is the clock when new PDFDocument(...) is called: PDFKit writes it into the
\* document as its CreationDate.
generatePdf(card, cardUrl, now) ==
  LET qr == QRCode_toBuffer(cardUrl, 280)
  IN [ok |-> qr.ok,
      value |-> [kind |-> "pdf",
                 creationDate |-> now,
                 brand |-> Brand,
                 qr |-> qr.image,
                 fullName |-> Flatten(<<card.firstName, <<" ">>, card.lastName>>),
                 designation |-> card.designation,
                 idLabel |-> card.id,
                 url |-> cardUrl]]

\* an SVG renderer whose QR code holds the path of the card, not its URL
generateCardSvgPathQr(card, cardUrl) ==
  LET qr == QRCode_toDataURL(CardPath \o card.id, 320)
  IN [ok |-> QrFits(cardUrl),
      value |-> [kind |-> "svg",
                 brand |-> Brand,
                 qr |-> qr.image,
                 fullName |-> Flatten(<<escapeHtml(card.firstName), <<" ">>, escapeHtml(card.lastName)>>),
                 designation |-> escapeHtml(card.designation),
                 idLabel |-> escapeHtml(card.id),
                 url |-> escapeHtml(cardUrl)]]

\* generateCardSvg(card, cardUrl): rejects when QRCode.toDataURL rejects
generateCardSvg(card, cardUrl) ==
  LET qr == QRCode_toDataURL(cardUrl, 320)
  IN [ok |-> qr.ok,
      value |-> [kind |-> "svg",
                 brand |-> Brand,
                 qr |-> qr.image,
                 fullName |-> Flatten(<<escapeHtml(card.firstName), <<" ">>, escapeHtml(card.lastName)>>),
                 designation |-> escapeHtml(card.designation),
                 idLabel |-> escapeHtml(card.id),
                 url |-> escapeHtml(cardUrl)]]

CRLF == <<"\r", "\n">>

\* a vCard with ORG between TITLE and NOTE
generateVcardOrgAfterTitle(card, cardUrl) ==
  LET fullName == Flatten(<<card.firstName, <<" ">>, card.lastName>>)
  IN Join(<<
       <<"B", "E", "G", "I", "N", ":", "V", "C", "A", "R", "D">>,
       <<"V", "E", "R", "S", "I", "O", "N", ":", "3", ".", "0">>,
       <<"F", "N", ":">> \o fullName,
       Flatten(<< <<"N", ":">>, card.lastName, <<";">>, card.firstName, <<";", ";", ";">> >>),
       <<"T", "I", "T", "L", "E", ":">> \o card.designation,
       <<"O", "R", "G", ":", "A", "c", "m", "e", " ", "C", "o">>,
       <<"N", "O", "T", "E", ":", "V", "i", "r", "t", "u", "a", "l", " ", "C", "a", "r", "d", " ", "I", "D", " ">> \o card.id,
       <<"U", "R", "L", ":">> \o cardUrl,
       <<"E", "N", "D", ":", "V", "C", "A", "R", "D">>
     >>, CRLF)

\* generateVcard(card, cardUrl): the lines joined with '\r\n'
generateVcard(card, cardUrl) ==
  LET fullName == Flatten(<<card.firstName, <<" ">>, card.lastName>>)
  IN Join(<<
       <<"B", "E", "G", "I", "N", ":", "V", "C", "A", "R", "D">>,
       <<"V", "E", "R", "S", "I", "O", "N", ":", "3", ".", "0">>,
       <<"F", "N", ":">> \o fullName,
       Flatten(<< <<"N", ":">>, card.lastName, <<";">>, card.firstName, <<";", ";", ";">> >>),
       <<"T", "I", "T", "L", "E", ":">> \o card.designation,
       <<"N", "O", "T", "E", ":", "V", "i", "r", "t", "u", "a", "l", " ", "C", "a", "r", "d", " ", "I", "D", " ">> \o card.id,
       <<"U", "R", "L", ":">> \o cardUrl,
       <<"O", "R", "G", ":", "A", "c", "m", "e", " ", "C", "o">>,
       <<"E", "N", "D", ":", "V", "C", "A", "R", "D">>
     >>, CRLF)

\* the default artifact of the variant: generatePdf or generateCardSvg
Render(v, card, cardUrl, now) ==
  IF v = "pdf" THEN generatePdf(card, cardUrl, now) ELSE generateCardSvg(card, cardUrl)

\* the extension of the default artifact's file name
Ext(v) == IF v = "pdf" THEN <<".", "p", "d", "f">> ELSE <<".", "s", "v", "g">>

\* `attachment; filename="visiting-card-${id}<ext>"`
Attachment(id, ext) ==
  Flatten(<< <<"a", "t", "t", "a", "c", "h", "m", "e", "n", "t", ";", " ", "f", "i", "l", "e", "n", "a", "m", "e", "=", "\"">>,
             <<"v", "i", "s", "i", "t", "i", "n", "g", "-", "c", "a", "r", "d", "-">>, id, ext, <<"\"">> >>)

\* a Content-Type that ignores the variant, as if the SVG variant had kept
\* the header of the PDF variant
ArtifactTypePdfOnly(v) == "application/pdf"

\* the Content-Type the handler sets for the default artifact
ArtifactType(v) == IF v = "pdf" THEN "application/pdf" ELSE "image/svg+xml; charset=utf-8"


(***************************************************************************)
(* Requests and responses.                                                 *)
(***************************************************************************)
Digits == <<"1", "2", "3", "4", "5", "6">>

\* the identifiers crypto.randomUUID() can return
Uuids == { <<"u", Digits[n]>> : n \in 1..MaxIds }

\* an id no card was ever stored under, as a client may type it
MissingId == <<"<", "z">>

\* ids a client may ask for
RequestIds == Uuids \cup {MissingId}

Protocols == { <<"h", "t", "t", "p">> }

\* Host headers: two ordinary ones and one so long that the card URL
\* exceeds the QR encoder's capacity
LongHost == <<"x", "x", "x", "x", "x">>
Hosts == { <<"a">>, <<"b">>, LongHost }

\* values of the three form fields a client may post
FirstNames == { Undefined,
                Str(<<" ", "\t">>),
                Str(<<" ", "a", "\t", " ", "<", " ">>),
                Str(<<"b">>) }
LastNames == { Str(<<>>), Str(<<"c", "\r", "\n", "d">>) }
Designations == { Str(<<"\r", "\n">>), Str(<<"e">>) }

NoBody == [firstName |-> Undefined, lastName |-> Undefined, designation |-> Undefined]

Bodies == [firstName : FirstNames, lastName : LastNames, designation : Designations]

\* the value of new Date().toISOString() at a creation; no handler reads
\* createdAt, and one value stands for all
Times == {"T1"}

\* the values of the clock when a PDF document is made
PdfDates == {"D1", "D2"}

Request(route, protocol, host, id, body) ==
  [route |-> route, protocol |-> protocol, host |-> host, params |-> [id |-> id], body |-> body]

\* a response: res.status(..), the headers set, and the body sent
Response(status, type, disposition, xCardUrl, body) ==
  [status |-> status, type |-> type, disposition |-> disposition,
   xCardUrl |-> xCardUrl, body |-> body]

\* res.send(html) of a page: Express declares text/html
HtmlResponse(status, page) == Response(status, "text/html; charset=utf-8", <<>>, <<>>, page)

\* one handled request: the request, the response sent, who sent it, and the
\* collaborators the handler called on the way
Exchange(req, res, via, calls) == [req |-> req, res |-> res, via |-> via, calls |-> calls]

NoExchange ==
  Exchange(Request("none", <<>>, <<>>, <<>>, NoBody),
           HtmlResponse(0, renderPage(<<>>, [kind |-> "none"])), "none", {})

VARIABLES
  variant,   \* which server.js is running: "pdf" or "svg"
  cards,     \* the Map `cards`: id -> card record
  issued,    \* the values crypto.randomUUID() has returned so far
  pending,   \* the handlers suspended at an await (a bag: any may settle next)
  last,      \* the exchange a handler has just completed, until it is delivered
  answered,  \* id -> the request body of the POST /create answered 200 with that id
  cleared,   \* the ids that were keys of `cards` when it was cleared
  firstDownload  \* the first download delivered with status 200 since the last clear, when observed

vars == <<variant, cards, issued, pending, last, answered, cleared, firstDownload>>

EmptyMap == [k \in {} |-> k]

\* a set that writes the value under every key of the map
MapSetAll(map, key, value) == [k \in DOMAIN map \cup {key} |-> value]

\* a set that publishes the record with its id only, the other fields to be
\* filled in later
MapSetStub(map, key, value) ==
  [k \in DOMAIN map \cup {key} |->
     IF k = key
     THEN [value EXCEPT !.firstName = <<>>, !.lastName = <<>>, !.designation = <<>>]
     ELSE map[k]]

\* Map.prototype.set
MapSet(map, key, value) ==
  [k \in DOMAIN map \cup {key} |-> IF k = key THEN value ELSE map[k]]

\* Map.prototype.has
MapHas(map, key) == key \in DOMAIN map

\* a handler suspends at its await
Suspend(h) == pending (+) SetToBag({h})

\* a suspended handler is resumed
Settle(h) == pending (-) SetToBag({h})

\* the suspended handlers of a route
Suspended(route) == { h \in BagToSet(pending) : h.req.route = route }

\* the event loop is free to run a handler: the previous exchange is over
\* and fewer than MaxPending handlers are suspended
Idle == last.req.route = "none"

CanSuspend == BagCardinality(pending) < MaxPending

Init ==
  /\ variant \in {"pdf", "svg"}
  /\ cards = EmptyMap
  /\ issued = {}
  /\ pending = EmptyBag
  /\ last = NoExchange
  /\ answered = EmptyMap
  /\ cleared = {}
  /\ firstDownload = NoExchange

\* the error-handling middleware: console.error(error), then the generic 500 page
ErrorMiddleware(req, calls) ==
  Exchange(req, HtmlResponse(500, ServerErrorPage), "error-middleware", calls)

\* the 404 middleware
NotFoundMiddleware(req) ==
  Exchange(req, HtmlResponse(404, PageNotFoundPage), "404-middleware", {})

\* getCardOr404 throwing on an absent card instead of answering
CardNotFoundUnhandled(req) == ErrorMiddleware(req, {})

\* getCardOr404 when the card is absent: the 404 it sends
CardNotFound(req) ==
  Exchange(req, HtmlResponse(404, CardNotFoundPage(req.params.id)), "handler", {})

\* app.get('/')
GetRoot(req) ==
  /\ Idle
  /\ req.route = "GET /"
  /\ last' = Exchange(req, HtmlResponse(200, renderFormPage(<<>>, NoValues)), "handler", {})
  /\ UNCHANGED <<variant, cards, issued, pending, answered, cleared, firstDownload>>

\* a generator that may return a value it has returned before
randomUUIDRepeating == Uuids

\* What crypto.randomUUID() may return.  The function is taken at its word:
\* a version-4 UUID is drawn from 2^122 values, and the model lets it return
\* only values it has not returned before.
randomUUID == Uuids \ issued

\* app.post('/create') up to its await: validation, and on success the
\* creation of the record and the call of the renderer
PostCreate(req) ==
  /\ Idle
  /\ req.route = "POST /create"
  /\ LET v == validateCardFields(req.body)
     IN IF Len(v.errors) > 0
        THEN /\ last' = Exchange(req,
                          HtmlResponse(400, renderFormPage(v.errors,
                            [firstName |-> v.firstName, lastName |-> v.lastName,
                             designation |-> v.designation])),
                          "handler", {})
             /\ UNCHANGED <<cards, issued, pending, firstDownload>>
        ELSE /\ CanSuspend
             /\ \E id \in randomUUID, now \in Times :
                  LET card == [id |-> id, firstName |-> v.firstName,
                               lastName |-> v.lastName, designation |-> v.designation,
                               createdAt |-> now]
                      cardUrl == CardUrlOf(req, id)
                  IN /\ cards' = MapSet(cards, id, card)
                     /\ issued' = issued \cup {id}
                     /\ pending' = Suspend(
                          [req |-> req, id |-> id, card |-> card, cardUrl |-> cardUrl])
             /\ UNCHANGED last
  /\ UNCHANGED <<variant, answered, cleared, firstDownload>>

\* a creation that keeps its record and URL in variables the handlers
\* share: after the await it sends what any suspended creation left there
ResumeCreateSharedCard(h) ==
  /\ Idle
  /\ h \in Suspended("POST /create")
  /\ \E now \in PdfDates, g \in Suspended("POST /create") :
     LET cardUrl == CardUrlOf(h.req, g.id)
         out == Render(variant, g.card, cardUrl, now)
     IN IF out.ok
        THEN /\ last' = Exchange(h.req,
                          Response(200, ArtifactType(variant),
                                   Attachment(g.id, Ext(variant)), cardUrl, out.value),
                          "handler", {"render", "qr"})
             /\ answered' = MapSet(answered, h.id, h.req.body)
        ELSE /\ last' = ErrorMiddleware(h.req, {"render", "qr"})
             /\ UNCHANGED answered
  /\ pending' = Settle(h)
  /\ UNCHANGED <<variant, cards, issued, cleared, firstDownload>>

\* app.post('/create') after its await: the artifact is sent, or the
\* renderer's rejection goes to next(error)
ResumeCreate(h) ==
  /\ Idle
  /\ h \in Suspended("POST /create")
  /\ \E now \in PdfDates :
     LET out == Render(variant, h.card, h.cardUrl, now)
     IN IF out.ok
        THEN /\ last' = Exchange(h.req,
                          Response(200, ArtifactType(variant),
                                   Attachment(h.id, Ext(variant)), h.cardUrl, out.value),
                          "handler", {"render", "qr"})
             /\ answered' = MapSet(answered, h.id, h.req.body)
        ELSE /\ last' = ErrorMiddleware(h.req, {"render", "qr"})
             /\ UNCHANGED answered
  /\ pending' = Settle(h)
  /\ UNCHANGED <<variant, cards, issued, cleared, firstDownload>>


\* cards.get(req.params.id) in getCardOr404: whether the card is there
HasCard(req) == MapHas(cards, req.params.id)

\* a preview handler that drops the card it has shown
GetCardEvicting(req) ==
  /\ Idle
  /\ req.route = "GET /card/:id"
  /\ last' = IF ~HasCard(req)
             THEN CardNotFound(req)
             ELSE Exchange(req, HtmlResponse(200, CardPage(variant, cards[req.params.id])),
                           "handler", {})
  /\ cards' = [k \in DOMAIN cards \ {req.params.id} |-> cards[k]]
  /\ UNCHANGED <<variant, issued, pending, answered, cleared, firstDownload>>

\* app.get('/card/:id')
GetCard(req) ==
  /\ Idle
  /\ req.route = "GET /card/:id"
  /\ last' = IF ~HasCard(req)
             THEN CardNotFound(req)
             ELSE Exchange(req, HtmlResponse(200, CardPage(variant, cards[req.params.id])),
                           "handler", {})
  /\ UNCHANGED <<variant, cards, issued, pending, answered, cleared, firstDownload>>

\* a QR handler that goes on after getCardOr404 has sent the 404
GetQrNoReturn(req) ==
  /\ Idle
  /\ req.route = "GET /card/:id/qr.png"
  /\ CanSuspend
  /\ IF ~HasCard(req)
     THEN /\ last' = CardNotFound(req)
          /\ pending' = Suspend(
               [req |-> req, id |-> req.params.id, card |-> [id |-> req.params.id],
                cardUrl |-> CardUrlOf(req, req.params.id)])
     ELSE /\ LET card == cards[req.params.id]
             IN pending' = Suspend(
                  [req |-> req, id |-> card.id, card |-> card,
                   cardUrl |-> CardUrlOf(req, card.id)])
          /\ UNCHANGED last
  /\ UNCHANGED <<variant, cards, issued, answered, cleared, firstDownload>>

\* app.get('/card/:id/qr.png') up to its await
GetQr(req) ==
  /\ Idle
  /\ req.route = "GET /card/:id/qr.png"
  /\ IF ~HasCard(req)
     THEN /\ last' = CardNotFound(req)
          /\ UNCHANGED pending
     ELSE /\ CanSuspend
          /\ LET card == cards[req.params.id]
             IN pending' = Suspend(
                  [req |-> req, id |-> card.id, card |-> card,
                   cardUrl |-> CardUrlOf(req, card.id)])
          /\ UNCHANGED last
  /\ UNCHANGED <<variant, cards, issued, answered, cleared, firstDownload>>

\* app.get('/card/:id/qr.png') after its await
ResumeQr(h) ==
  /\ Idle
  /\ h \in Suspended("GET /card/:id/qr.png")
  /\ LET qr == QRCode_toBuffer(h.cardUrl, 300)
     IN last' = IF qr.ok
                THEN Exchange(h.req,
                       Response(200, "image/png", <<>>, <<>>,
                                [kind |-> "png", qr |-> qr.image]),
                       "handler", {"qr"})
                ELSE ErrorMiddleware(h.req, {"qr"})
  /\ pending' = Settle(h)
  /\ UNCHANGED <<variant, cards, issued, answered, cleared, firstDownload>>

\* a download handler that removes the card once it has read it
GetDownloadOnce(req) ==
  /\ Idle
  /\ req.route = "GET /card/:id/download"
  /\ IF ~HasCard(req)
     THEN /\ last' = CardNotFound(req)
          /\ UNCHANGED <<pending, cards>>
     ELSE /\ CanSuspend
          /\ LET card == cards[req.params.id]
             IN pending' = Suspend(
                  [req |-> req, id |-> card.id, card |-> card,
                   cardUrl |-> CardUrlOf(req, card.id)])
          /\ cards' = [k \in DOMAIN cards \ {req.params.id} |-> cards[k]]
          /\ UNCHANGED last
  /\ UNCHANGED <<variant, issued, answered, cleared, firstDownload>>

\* app.get('/card/:id/download') up to its await
GetDownload(req) ==
  /\ Idle
  /\ req.route = "GET /card/:id/download"
  /\ IF ~HasCard(req)
     THEN /\ last' = CardNotFound(req)
          /\ UNCHANGED pending
     ELSE /\ CanSuspend
          /\ LET card == cards[req.params.id]
             IN pending' = Suspend(
                  [req |-> req, id |-> card.id, card |-> card,
                   cardUrl |-> CardUrlOf(req, card.id)])
          /\ UNCHANGED last
  /\ UNCHANGED <<variant, cards, issued, answered, cleared, firstDownload>>

\* what app.get('/card/:id/download') answers once the renderer has settled
DownloadExchange(v, req, card, cardUrl, now) ==
  LET out == Render(v, card, cardUrl, now)
  IN IF out.ok
     THEN Exchange(req,
            Response(200, ArtifactType(v), Attachment(card.id, Ext(v)), <<>>, out.value),
            "handler", {"render", "qr"})
     ELSE ErrorMiddleware(req, {"render", "qr"})

\* app.get('/card/:id/download') after its await
ResumeDownload(h) ==
  /\ Idle
  /\ h \in Suspended("GET /card/:id/download")
  /\ \E now \in PdfDates :
       last' = DownloadExchange(variant, h.req, h.card, h.cardUrl, now)
  /\ pending' = Settle(h)
  /\ UNCHANGED <<variant, cards, issued, answered, cleared, firstDownload>>

\* GET /card/:id/contact.vcf: a route of the SVG variant only; the PDF
\* variant has no such route and the request reaches the 404 middleware
GetContactVcf(req) ==
  /\ Idle
  /\ req.route = "GET /card/:id/contact.vcf"
  /\ last' = IF variant # "svg"
             THEN NotFoundMiddleware(req)
             ELSE IF ~HasCard(req)
             THEN CardNotFound(req)
             ELSE LET card == cards[req.params.id]
                      cardUrl == CardUrlOf(req, card.id)
                  IN Exchange(req,
                       Response(200, "text/vcard; charset=utf-8",
                                Attachment(card.id, <<".", "v", "c", "f">>), <<>>,
                                [kind |-> "vcard", text |-> generateVcard(card, cardUrl)]),
                       "handler", {})
  /\ UNCHANGED <<variant, cards, issued, pending, answered, cleared, firstDownload>>

\* any request no route matches: the 404 middleware
Unmatched(req) ==
  /\ Idle
  /\ req.route = "other"
  /\ last' = NotFoundMiddleware(req)
  /\ UNCHANGED <<variant, cards, issued, pending, answered, cleared, firstDownload>>

\* a clear that leaves the records in the store
ClearKeepsCards ==
  /\ Idle
  /\ pending = EmptyBag
  /\ cards' = cards
  /\ cleared' = cleared \cup DOMAIN cards
  /\ answered' = EmptyMap
  /\ firstDownload' = NoExchange
  /\ UNCHANGED <<variant, issued, pending, last>>

\* cards.clear(), as the tests do before each test while no request is being
\* handled; it stands for a restart of the process
Clear ==
  /\ Idle
  /\ pending = EmptyBag
  /\ cards' = EmptyMap
  /\ cleared' = cleared \cup DOMAIN cards
  /\ answered' = EmptyMap
  /\ firstDownload' = NoExchange
  /\ UNCHANGED <<variant, issued, pending, last>>

\* the response has left the server: the exchange is over
Deliver ==
  /\ ~Idle
  /\ last' = NoExchange
  /\ UNCHANGED <<variant, cards, issued, pending, answered, cleared, firstDownload>>

\* the same, seen by an observer who keeps the first download that was
\* answered 200
DeliverObserved ==
  /\ ~Idle
  /\ last' = NoExchange
  /\ firstDownload' = IF /\ firstDownload = NoExchange
                         /\ last.req.route = "GET /card/:id/download"
                         /\ last.res.status = 200
                      THEN last ELSE firstDownload
  /\ UNCHANGED <<variant, cards, issued, pending, answered, cleared>>

(***************************************************************************)
(* The requests a client may send.                                         *)
(***************************************************************************)
CardRoutes == {"GET /card/:id", "GET /card/:id/qr.png", "GET /card/:id/download",
               "GET /card/:id/contact.vcf"}

\* Every request carries a Host header.  It is varied for the routes whose
\* handler reads it (getBaseUrl), most for the download route; elsewhere, and
\* for a POST /create that does not pass the validation, one value stands
\* for all.
AnyHost == <<"a">>

HostsOf(route) ==
  CASE route = "GET /card/:id/download" -> Hosts
    [] route \in {"POST /create", "GET /card/:id/qr.png"} -> {AnyHost, LongHost}
    [] OTHER -> {AnyHost}

Requests ==
  { Request(route, protocol, AnyHost, <<>>, NoBody) :
      route \in {"GET /", "other"}, protocol \in Protocols }
  \cup { Request("POST /create", protocol, host, <<>>, body) :
      protocol \in Protocols, host \in HostsOf("POST /create"),
      body \in { b \in Bodies : validateCardFields(b).errors = <<>> } }
  \cup { Request("POST /create", protocol, AnyHost, <<>>, body) :
      protocol \in Protocols, body \in Bodies }
  \cup UNION { { Request(route, protocol, host, id, NoBody) :
                    protocol \in Protocols, host \in HostsOf(route), id \in RequestIds } :
                route \in CardRoutes }

\* the handlers, and the clearing of the store
Serve ==
  \/ \E req \in Requests : PostCreate(req)
  \/ \E req \in Requests : GetRoot(req)
  \/ \E req \in Requests : GetCard(req)
  \/ \E req \in Requests : GetQr(req)
  \/ \E req \in Requests : GetDownload(req)
  \/ \E req \in Requests : GetContactVcf(req)
  \/ \E req \in Requests : Unmatched(req)
  \/ \E h \in BagToSet(pending) : ResumeCreate(h)
  \/ \E h \in BagToSet(pending) : ResumeQr(h)
  \/ \E h \in BagToSet(pending) : ResumeDownload(h)
  \/ Clear

Next == Serve \/ Deliver

Spec == Init /\ [][Next]_vars

\* the same server, its downloads observed
NextObserved == Serve \/ DeliverObserved

SpecObserved == Init /\ [][NextObserved]_vars

(***************************************************************************)
(* Properties.                                                             *)
(***************************************************************************)
FieldNames == {"firstName", "lastName", "designation"}

\* a submitted field that is absent, empty or made of whitespace only
Blank(value) ==
  ~value.defined \/ \A i \in 1..Len(value.chars) : IsSpace(value.chars[i])

\* a body whose three fields are non-empty after normalization
ValidBody(body) == \A f \in FieldNames : ~Blank(body[f])

\* the message the form page shows for a missing field
RequiredMessage(f) ==
  CASE f = "firstName" -> <<"F", "i", "r", "s", "t", " ", "n", "a", "m", "e", " ", "i", "s", " ", "r", "e", "q", "u", "i", "r", "e", "d", ".">>
    [] f = "lastName" -> <<"L", "a", "s", "t", " ", "n", "a", "m", "e", " ", "i", "s", " ", "r", "e", "q", "u", "i", "r", "e", "d", ".">>
    [] f = "designation" -> <<"D", "e", "s", "i", "g", "n", "a", "t", "i", "o", "n", " ", "i", "s", " ", "r", "e", "q", "u", "i", "r", "e", "d", ".">>

\* C1: a POST /create with a field that is empty or whitespace-only is
\* answered 400 with the form page, which shows "<Field> is required." for
\* that field; such a request never gets as far as the creation of a record.
BlankFieldRejected ==
  /\ last.req.route = "POST /create" =>
       \A f \in FieldNames :
         Blank(last.req.body[f]) =>
           /\ last.res.status = 400
           /\ last.res.body.content.kind = "form"
           /\ \E i \in DOMAIN last.res.body.content.errors :
                last.res.body.content.errors[i] = RequiredMessage(f)
  /\ \A h \in Suspended("POST /create") : ValidBody(h.req.body)

\* a POST whose designation is whitespace-only and whose firstName is
\* absent, its lastName being fine, has been answered 400
BlankFieldRejectedWitness ==
  /\ last.req.route = "POST /create"
  /\ ~last.req.body.firstName.defined
  /\ ~Blank(last.req.body.lastName)
  /\ Blank(last.req.body.designation) /\ last.req.body.designation.chars # <<>>
  /\ last.res.status = 400

\* the Content-Type and the file name that go with an artifact format
TypeOfFormat(kind) ==
  CASE kind = "pdf" -> "application/pdf"
    [] kind = "svg" -> "image/svg+xml; charset=utf-8"
    [] OTHER -> "none"

FileNameOfFormat(id, kind) ==
  Flatten(<< <<"a", "t", "t", "a", "c", "h", "m", "e", "n", "t", ";", " ", "f", "i", "l", "e", "n", "a", "m", "e", "=", "\"", "v", "i", "s", "i", "t", "i", "n", "g", "-", "c", "a", "r", "d", "-">>,
             id,
             IF kind = "pdf" THEN <<".", "p", "d", "f", "\"">> ELSE <<".", "s", "v", "g", "\"">> >>)

\* the headers of a successful creation: Content-Type and file name of the
\* artifact sent, and X-Card-Url the public URL of a stored card
CreateHeaders ==
  \E id \in DOMAIN cards :
    /\ last.res.xCardUrl = Flatten(<<last.req.protocol, <<":", "/", "/">>, last.req.host,
                                     <<"/", "c", "a", "r", "d", "/">>, id>>)
    /\ last.res.body.kind \in {"pdf", "svg"}
    /\ last.res.type = TypeOfFormat(last.res.body.kind)
    /\ last.res.disposition = FileNameOfFormat(id, last.res.body.kind)

\* the QR encoder rejects the card URL the request gives rise to
UrlTooLong(req) == \A id \in Uuids : ~QrFits(CardUrlOf(req, id))

\* C2 as stated: every POST /create with three non-empty normalized fields
\* is answered 200 with the headers of the artifact.
ValidCreateAlways200 ==
  last.req.route = "POST /create" /\ ValidBody(last.req.body) =>
    last.res.status = 200 /\ CreateHeaders

\* C2: a POST /create with three non-empty normalized fields is answered 200
\* with Content-Type, Content-Disposition and X-Card-Url of the artifact,
\* unless the QR encoder rejects the card URL: then, and only then, the
\* answer is the generic 500 of the error middleware.
ValidCreateAnswer ==
  last.req.route = "POST /create" /\ ValidBody(last.req.body) =>
    IF UrlTooLong(last.req)
    THEN last.res.status = 500 /\ last.via = "error-middleware"
    ELSE last.res.status = 200 /\ CreateHeaders

\* a POST whose firstName needed normalization has been answered 200 by
\* the SVG variant
ValidCreateAnswerWitness ==
  /\ last.req.route = "POST /create"
  /\ ValidBody(last.req.body)
  /\ last.req.body.firstName.chars # sanitizeInput(last.req.body.firstName)
  /\ last.res.status = 200
  /\ variant = "svg"


RECURSIVE Words(_)
\* the maximal runs of non-whitespace characters of a string, in order
Words(s) ==
  IF s = <<>> THEN <<>>
  ELSE IF IsSpace(Head(s)) THEN Words(Tail(s))
  ELSE LET n == CHOOSE k \in 1..Len(s) :
                  /\ \A i \in 1..k : ~IsSpace(s[i])
                  /\ k = Len(s) \/ IsSpace(s[k + 1])
       IN <<SubSeq(s, 1, n)>> \o Words(SubSeq(s, n + 1, Len(s)))

\* the normalized form of a submitted field: its words, one space between
NormalizedForm(value) ==
  Join(Words(IF value.defined THEN value.chars ELSE <<>>), <<" ">>)

\* text as it stands in HTML or SVG markup
Markup(text) ==
  Flatten([i \in 1..Len(text) |->
    CASE text[i] = "&" -> <<"&", "a", "m", "p", ";">>
      [] text[i] = "<" -> <<"&", "l", "t", ";">>
      [] text[i] = ">" -> <<"&", "g", "t", ";">>
      [] text[i] = "\"" -> <<"&", "q", "u", "o", "t", ";">>
      [] text[i] = "'" -> <<"&", "#", "3", "9", ";">>
      [] OTHER -> <<text[i]>>])

\* the last path segment of a URL
LastSegment(url) == Pop(Split(url, <<"/">>))

\* the public URL of card id as the request sees it
PublicUrl(req, id) ==
  Flatten(<<req.protocol, <<":", "/", "/">>, req.host, <<"/", "c", "a", "r", "d", "/">>, id>>)

\* a response shows the card of id with the names first and lastN: the
\* preview page and the SVG in markup, the PDF and the vCard as text; the QR
\* image carries no text and is the code of the card's URL
ShowsCard(req, res, id, first, lastN) ==
  LET full == Flatten(<<first, <<" ">>, lastN>>)
  IN CASE res.type = "text/html; charset=utf-8" ->
            res.body.content.kind = "card" /\ res.body.content.h1 = Markup(full)
       [] res.type = "application/pdf" -> res.body.fullName = full
       [] res.type = "image/svg+xml; charset=utf-8" -> res.body.fullName = Markup(full)
       [] res.type = "text/vcard; charset=utf-8" ->
            Contains(res.body.text, <<"\r", "\n", "F", "N", ":">> \o full \o <<"\r", "\n">>)
       [] res.type = "image/png" -> res.body.qr.data = PublicUrl(req, id)
       [] OTHER -> FALSE

\* the routes under /card/:id the running variant has
RoutesOfVariant ==
  {"GET /card/:id", "GET /card/:id/qr.png", "GET /card/:id/download"}
  \cup (IF variant = "svg" THEN {"GET /card/:id/contact.vcf"} ELSE {})

\* the routes whose handler encodes the card URL as a QR code
QrRoutes == {"GET /card/:id/qr.png", "GET /card/:id/download"}

\* a POST /create answered 200 leaves its id, the last path segment of its
\* X-Card-Url, as a key of the store
CreatedIdIsKey ==
  /\ DOMAIN answered \subseteq DOMAIN cards
  /\ last.req.route = "POST /create" /\ last.res.status = 200 =>
       /\ LastSegment(last.res.xCardUrl) \in DOMAIN answered
       /\ answered[LastSegment(last.res.xCardUrl)] = last.req.body

\* C3 as stated: after a POST /create answered 200 the id of its X-Card-Url
\* is a key of the store, and while the store is not cleared every GET of
\* the card's routes for that id is answered 200 and shows the normalized
\* names that were submitted.
RoundTripAlways200 ==
  /\ CreatedIdIsKey
  /\ last.req.route \in RoutesOfVariant /\ last.req.params.id \in DOMAIN answered =>
       /\ last.res.status = 200
       /\ ShowsCard(last.req, last.res, last.req.params.id,
                    NormalizedForm(answered[last.req.params.id].firstName),
                    NormalizedForm(answered[last.req.params.id].lastName))

\* C3: after a POST /create answered 200 the id of its X-Card-Url is a key
\* of the store, and while the store is not cleared every GET /card/<id>
\* (and contact.vcf in the vCard variant) is answered 200 and shows the
\* normalized names that were submitted; qr.png and download do the same
\* (the QR image being the code of the card's URL) unless the QR encoder
\* rejects the URL of that request, in which case they are answered 500.
RoundTrip ==
  /\ CreatedIdIsKey
  /\ last.req.route \in RoutesOfVariant /\ last.req.params.id \in DOMAIN answered =>
       IF last.req.route \in QrRoutes /\ UrlTooLong(last.req)
       THEN last.res.status = 500
       ELSE /\ last.res.status = 200
            /\ ShowsCard(last.req, last.res, last.req.params.id,
                         NormalizedForm(answered[last.req.params.id].firstName),
                         NormalizedForm(answered[last.req.params.id].lastName))

\* the download of a created card whose submitted names needed
\* normalization has been answered 200
RoundTripWitness ==
  /\ last.req.route = "GET /card/:id/download"
  /\ last.req.params.id \in DOMAIN answered
  /\ answered[last.req.params.id].firstName.chars
       # NormalizedForm(answered[last.req.params.id].firstName)
  /\ answered[last.req.params.id].lastName.chars
       # NormalizedForm(answered[last.req.params.id].lastName)
  /\ last.res.status = 200

\* a request for an id that is not a key of the store was not taken to the
\* QR encoder or the renderer
NoneSuspendedForUnknownId ==
  \A h \in BagToSet(pending) : h.req.route \in CardRoutes => h.req.params.id \in DOMAIN cards

\* C4 as stated: for an id that is not a key of the store, each of the four
\* routes under /card/:id answers 404 with the card-not-found page, calls
\* neither the QR encoder nor the renderer, and does not end in the error
\* middleware.
UnknownIdCardNotFound ==
  /\ NoneSuspendedForUnknownId
  /\ last.req.route \in CardRoutes /\ last.req.params.id \notin DOMAIN cards =>
       /\ last.res.status = 404
       /\ last.res.body.title = <<"C", "a", "r", "d", " ", "N", "o", "t", " ", "F", "o", "u", "n", "d">>
       /\ last.res.body.content.kind = "card-not-found"
       /\ last.calls = {}
       /\ last.via = "handler"

\* C4: for an id that is not a key of the store, GET /card/:id, qr.png and
\* download, and contact.vcf in the vCard variant, answer 404 with the
\* card-not-found page; in the PDF variant, which has no contact.vcf route,
\* that path is answered 404 with the page-not-found page of the 404
\* middleware.  None calls the QR encoder or the renderer, none ends in the
\* error middleware.
UnknownId404 ==
  /\ NoneSuspendedForUnknownId
  /\ last.req.route \in CardRoutes /\ last.req.params.id \notin DOMAIN cards =>
       /\ last.res.status = 404
       /\ last.calls = {}
       /\ IF last.req.route \in RoutesOfVariant
          THEN /\ last.res.body.title = <<"C", "a", "r", "d", " ", "N", "o", "t", " ", "F", "o", "u", "n", "d">>
               /\ last.res.body.content.kind = "card-not-found"
               /\ last.via = "handler"
          ELSE /\ last.res.body.title = <<"P", "a", "g", "e", " ", "N", "o", "t", " ", "F", "o", "u", "n", "d">>
               /\ last.via = "404-middleware"

\* the QR route has answered 404 for an id that was never stored, while
\* a card is in the store
UnknownId404Witness ==
  /\ last.req.route = "GET /card/:id/qr.png"
  /\ last.req.params.id \notin Uuids
  /\ DOMAIN cards # {}
  /\ last.res.status = 404


\* the creations of a step: the ids of the POST /create handlers that are
\* suspended at the renderer after the step and were not before
CreatedIn(before, after) ==
  { h.id : h \in { g \in BagToSet(after) :
                     /\ g.req.route = "POST /create"
                     /\ CopiesIn(g, after) > CopiesIn(g, before) } }

StoredRecordsComplete ==
  \A k \in DOMAIN cards :
    /\ cards[k].id = k
    /\ cards[k].id # <<>>
    /\ cards[k].firstName # <<>>
    /\ cards[k].lastName # <<>>
    /\ cards[k].designation # <<>>

\* two records are stored, one of them made from a firstName that needed
\* normalization
StoredRecordsCompleteWitness ==
  /\ Cardinality(DOMAIN cards) = 2
  /\ \E k \in DOMAIN cards : cards[k].firstName = <<"a", " ", "<">>

\* C7: a record in the store keeps its id, firstName, lastName, designation
\* and createdAt over every step, whatever request is handled; it leaves the
\* store only when the whole store is cleared.
RecordsImmutable ==
  [][ \A k \in DOMAIN cards :
        IF k \in DOMAIN cards' THEN cards'[k] = cards[k] ELSE cards' = EmptyMap ]_vars

\* a record is in the store, a second one was created after it and has been
\* answered, and a download of the first has just been answered
RecordsImmutableWitness ==
  /\ Cardinality(DOMAIN answered) = 2
  /\ last.req.route = "GET /card/:id/download"
  /\ last.req.params.id \in DOMAIN cards
  /\ last.res.status = 200

\* C8: after cards.clear() every id that was a key before answers 404 on
\* GET /card/:id and on the other /card/:id/* routes, also after new
\* creations; such an id is not a key and no handler is at work for it.
ClearedIds404 ==
  /\ cleared \cap DOMAIN cards = {}
  /\ \A h \in BagToSet(pending) : h.req.route \in CardRoutes => h.req.params.id \notin cleared
  /\ last.req.route \in CardRoutes /\ last.req.params.id \in cleared => last.res.status = 404

\* the download of an id that was a key before a clear has been answered 404
\* while a record created after the clear is in the store
ClearedIds404Witness ==
  /\ last.req.route = "GET /card/:id/download"
  /\ last.req.params.id \in cleared
  /\ last.res.status = 404
  /\ DOMAIN cards # {}


\* a response without the creation date PDFKit stamps into a PDF document
Undated(res) ==
  IF res.status = 200 /\ res.type = "application/pdf"
  THEN [res EXCEPT !.body.creationDate = "none"]
  ELSE res

\* a download has been answered after an earlier download of the same card
\* was delivered with status 200
SecondDownload ==
  /\ last.req.route = "GET /card/:id/download"
  /\ firstDownload.req.route = "GET /card/:id/download"
  /\ last.req.params.id = firstDownload.req.params.id

\* C9 as stated: two downloads of the same stored record return
\* byte-identical artifacts.
DownloadsIdentical ==
  SecondDownload => last.res = firstDownload.res

\* C9: two downloads of the same stored record asked with the same protocol
\* and Host are answered with the same status, the same headers and the
\* same artifact, the creation date of a PDF document apart (the SVG is
\* identical throughout); the first download does not change what the
\* second returns.
DownloadsRepeatable ==
  SecondDownload /\ last.req.protocol = firstDownload.req.protocol
                 /\ last.req.host = firstDownload.req.host =>
    /\ Undated(last.res) = Undated(firstDownload.res)
    /\ variant = "svg" => last.res = firstDownload.res

\* a second download of a card with the Host of the first has been answered
\* 200 by the PDF variant, at another time than the first
DownloadsRepeatableWitness ==
  /\ SecondDownload
  /\ last.req.host = firstDownload.req.host
  /\ last.res.status = 200
  /\ variant = "pdf"
  /\ last.res.body.creationDate # firstDownload.res.body.creationDate

\* the lines of a vCard text, and the name of the property a line holds
VcardLinesOf(text) == Split(text, <<"\r", "\n">>)

PropertyName(line) == Head(Split(line, <<":">>))

\* the names of the six properties FN, N, TITLE, ORG, NOTE, URL as they
\* follow one another in the text
OrderedProperties(text) ==
  LET names == [i \in 1..Len(VcardLinesOf(text)) |-> PropertyName(VcardLinesOf(text)[i])]
      Ordered(n) == n \in {<<"F", "N">>, <<"N">>, <<"T", "I", "T", "L", "E">>,
                           <<"O", "R", "G">>, <<"N", "O", "T", "E">>, <<"U", "R", "L">>}
  IN SelectSeq(names, Ordered)

\* a vCard was sent for a stored card
VcardSent ==
  /\ last.req.route = "GET /card/:id/contact.vcf"
  /\ last.res.status = 200

\* C10 as stated: the vCard is a BEGIN:VCARD ... END:VCARD envelope of lines
\* ended by \r\n, holding FN, N, TITLE, ORG, NOTE, URL in this order.
VcardOrgBeforeNote ==
  VcardSent =>
    /\ Head(VcardLinesOf(last.res.body.text)) = <<"B", "E", "G", "I", "N", ":", "V", "C", "A", "R", "D">>
    /\ Pop(VcardLinesOf(last.res.body.text)) = <<"E", "N", "D", ":", "V", "C", "A", "R", "D">>
    /\ OrderedProperties(last.res.body.text)
         = <<<<"F", "N">>, <<"N">>, <<"T", "I", "T", "L", "E">>,
             <<"O", "R", "G">>, <<"N", "O", "T", "E">>, <<"U", "R", "L">>>>

\* C10: the vCard is the lines BEGIN:VCARD, VERSION:3.0, FN (first and last
\* name), N (last;first;;;), TITLE (designation), NOTE (with the card id),
\* URL (the card's public URL), ORG (Acme Co), END:VCARD in this order,
\* separated by \r\n, no line holding a CR or LF and no other line present.
VcardLines ==
  VcardSent =>
    LET card == cards[last.req.params.id]
        lines == VcardLinesOf(last.res.body.text)
    IN /\ lines = << <<"B", "E", "G", "I", "N", ":", "V", "C", "A", "R", "D">>,
                     <<"V", "E", "R", "S", "I", "O", "N", ":", "3", ".", "0">>,
                     Flatten(<<<<"F", "N", ":">>, card.firstName, <<" ">>, card.lastName>>),
                     Flatten(<<<<"N", ":">>, card.lastName, <<";">>, card.firstName, <<";", ";", ";">>>>),
                     Flatten(<<<<"T", "I", "T", "L", "E", ":">>, card.designation>>),
                     Flatten(<<<<"N", "O", "T", "E", ":", "V", "i", "r", "t", "u", "a", "l", " ", "C", "a", "r", "d", " ", "I", "D", " ">>, last.req.params.id>>),
                     Flatten(<<<<"U", "R", "L", ":">>, PublicUrl(last.req, last.req.params.id)>>),
                     <<"O", "R", "G", ":", "A", "c", "m", "e", " ", "C", "o">>,
                     <<"E", "N", "D", ":", "V", "C", "A", "R", "D">> >>
       /\ \A i \in 1..Len(lines) : \A j \in 1..Len(lines[i]) : lines[i][j] \notin {"\r", "\n"}

\* the vCard of a card whose names were normalized from a firstName with
\* tabs and a lastName with a line break has been sent
VcardLinesWitness ==
  /\ VcardSent
  /\ cards[last.req.params.id].firstName = <<"a", " ", "<">>
  /\ cards[last.req.params.id].lastName = <<"c", " ", "d">>


\* the generic page of a failure: its title and a fixed text, nothing of the error
GenericErrorPage ==
  [title |-> <<"S", "e", "r", "v", "e", "r", " ", "E", "r", "r", "o", "r">>,
   content |-> [kind |-> "server-error"]]

\* C11: when the QR encoder rejects the card URL for a handler suspended in
\* POST /create, GET /card/:id/qr.png or GET /card/:id/download, the step
\* that resumes the handler answers its request with status 500 and the
\* generic page through the error middleware, sends no artifact, suspends
\* no handler again and leaves the store as it was.
RenderFailurePropagated ==
  [][ \A h \in BagToSet(pending) :
        ~QrFits(h.cardUrl) /\ pending' = pending (-) SetToBag({h}) =>
          /\ last'.req = h.req
          /\ last'.via = "error-middleware"
          /\ last'.res.status = 500
          /\ last'.res.type = "text/html; charset=utf-8"
          /\ last'.res.body = GenericErrorPage
          /\ last'.res.disposition = <<>> /\ last'.res.xCardUrl = <<>>
          /\ cards' = cards ]_vars

\* the QR route has answered 500 for a stored card
RenderFailurePropagatedWitness ==
  /\ last.req.route = "GET /card/:id/qr.png"
  /\ last.req.params.id \in DOMAIN cards
  /\ last.via = "error-middleware"
  /\ last.res.status = 500

\* C12 as stated: a record is in the store only if the POST /create that
\* created it was answered 200 (or is still being handled); a creation
\* answered with an error leaves no record behind.
NoRecordWithoutAnswer ==
  \A id \in DOMAIN cards :
    \/ id \in DOMAIN answered
    \/ \E h \in Suspended("POST /create") : h.id = id

\* a POST /create has been answered 500 and the record it built is in the store
RecordLeftByFailedCreate ==
  /\ last.req.route = "POST /create"
  /\ last.res.status = 500
  /\ \E id \in DOMAIN cards :
       /\ id \notin DOMAIN answered
       /\ \A h \in Suspended("POST /create") : h.id # id
       /\ cards[id].firstName = NormalizedForm(last.req.body.firstName)

\* a fully built record: the five fields, each with a value
FullRecord(card) ==
  /\ DOMAIN card = {"id", "firstName", "lastName", "designation", "createdAt"}
  /\ card.id \in Uuids
  /\ card.firstName # <<>> /\ card.lastName # <<>> /\ card.designation # <<>>
  /\ card.createdAt \in Times

\* C13: whatever the interleaving of creations and reads, a read of an id
\* finds no record (404) or a fully built one: every record in the store is
\* complete from the moment it is a key, also while its creation is
\* suspended at the renderer; the record a suspended read holds is the
\* stored one; and the preview page shows name, designation and id of it.
ReadsSeeFullRecords ==
  /\ \A k \in DOMAIN cards : FullRecord(cards[k]) /\ cards[k].id = k
  /\ \A h \in BagToSet(pending) :
       h.req.route \in CardRoutes =>
         /\ h.req.params.id \in DOMAIN cards
         /\ h.card = cards[h.req.params.id]
  /\ last.req.route \in RoutesOfVariant =>
       IF last.req.params.id \notin DOMAIN cards
       THEN last.res.status = 404
       ELSE /\ last.res.status \in {200, 500}
            /\ last.req.route = "GET /card/:id" =>
                 /\ last.res.status = 200
                 /\ last.res.body.content.h1
                      = Markup(Flatten(<<cards[last.req.params.id].firstName, <<" ">>,
                                         cards[last.req.params.id].lastName>>))
                 /\ last.res.body.content.designation
                      = Markup(cards[last.req.params.id].designation)
                 /\ last.res.body.content.idLabel = Markup(last.req.params.id)

\* the preview page of a card has been answered while the creation of that
\* card is still suspended at the renderer
ReadsSeeFullRecordsWitness ==
  /\ last.req.route = "GET /card/:id"
  /\ last.res.status = 200
  /\ \E h \in Suspended("POST /create") : h.id = last.req.params.id

\* C14: the store changes only by creation.  In every step the keys present
\* stay with their records, unless the step is the clearing of the store,
\* which handles no request; a step adds a key only if it suspends at the
\* renderer the handler of a POST /create whose three fields are valid, and
\* then it adds exactly the key of that handler and no other; every other
\* step (any GET, an unmatched route, the resumption of a handler) leaves
\* the store as it is.
StoreChangesOnlyByCreation ==
  [][ /\ \/ \A k \in DOMAIN cards : k \in DOMAIN cards' /\ cards'[k] = cards[k]
         \/ cards' = EmptyMap /\ last' = last /\ pending' = pending
      /\ DOMAIN cards' \ DOMAIN cards = CreatedIn(pending, pending')
      /\ Cardinality(CreatedIn(pending, pending')) <= 1
      /\ \A h \in BagToSet(pending') :
           h.req.route = "POST /create" /\ CopiesIn(h, pending') > CopiesIn(h, pending) =>
             ValidBody(h.req.body) ]_vars

\* with two records in the store, a request no route matches has been answered
StoreChangesOnlyByCreationWitness ==
  /\ Cardinality(DOMAIN cards) = 2
  /\ last.req.route = "other"
  /\ last.res.status = 404

\* an artifact has been sent: the answer 200 of a creation or of a download
ArtifactSent ==
  /\ last.req.route \in {"POST /create", "GET /card/:id/download"}
  /\ last.res.status = 200

\* the id of the card an artifact was sent for
ArtifactId ==
  IF last.req.route = "POST /create"
  THEN LastSegment(last.res.xCardUrl)
  ELSE last.req.params.id

\* text as the artifact's format holds it: markup in the SVG, plain in the PDF
InFormat(kind, text) == IF kind = "svg" THEN Markup(text) ELSE text

\* C15: every artifact sent for a record embeds the brand header, the full
\* name, the designation, the record's id as a label, a QR image and the
\* public URL as text; the URL in the QR code is the URL printed on the
\* artifact, and it is the URL of the request's origin with path /card/<id>.
ArtifactContent ==
  ArtifactSent =>
    LET card == cards[ArtifactId]
        art == last.res.body
        url == PublicUrl(last.req, ArtifactId)
    IN /\ art.kind \in {"pdf", "svg"}
       /\ art.brand = <<"A", "C", "M", "E", " ", "C", "O">>
       /\ art.fullName = InFormat(art.kind, Flatten(<<card.firstName, <<" ">>, card.lastName>>))
       /\ art.designation = InFormat(art.kind, card.designation)
       /\ art.idLabel = InFormat(art.kind, card.id)
       /\ card.id = ArtifactId
       /\ art.qr.form \in {"png", "dataurl"}
       /\ art.qr.data = url
       /\ art.url = InFormat(art.kind, url)
       /\ LastSegment(art.qr.data) = card.id

\* the SVG of a card whose first name holds a character that markup escapes
\* has been downloaded
ArtifactContentWitness ==
  /\ ArtifactSent
  /\ last.req.route = "GET /card/:id/download"
  /\ last.res.body.kind = "svg"
  /\ cards[ArtifactId].firstName = <<"a", " ", "<">>

\* a string in normal form: no whitespace at either end, and no whitespace
\* inside but single spaces between other characters
InNormalForm(s) ==
  /\ s # <<>> => ~IsSpace(s[1]) /\ ~IsSpace(s[Len(s)])
  /\ \A i \in 1..Len(s) : IsSpace(s[i]) => s[i] = " "
  /\ \A i \in 1..(Len(s) - 1) : ~(s[i] = " " /\ s[i + 1] = " ")

\* C16: every firstName, lastName and designation in the store is a fixed
\* point of normalization: it is in normal form (no tab, CR or LF, no
\* whitespace at the ends, no two spaces in a row) and sanitizeInput returns
\* it unchanged.
StoredFieldsNormalized ==
  \A k \in DOMAIN cards : \A f \in FieldNames :
    /\ InNormalForm(cards[k][f])
    /\ sanitizeInput(Str(cards[k][f])) = cards[k][f]

\* a record is stored whose names were submitted with tabs, line breaks and
\* surrounding spaces
StoredFieldsNormalizedWitness ==
  \E k \in DOMAIN answered :
    /\ answered[k].firstName.chars = <<" ", "a", "\t", " ", "<", " ">>
    /\ answered[k].lastName.chars = <<"c", "\r", "\n", "d">>
    /\ cards[k].firstName = <<"a", " ", "<">>
    /\ cards[k].lastName = <<"c", " ", "d">>

\* C17 as stated: in every HTML response each place that holds a value
\* supplied by the user (firstName, lastName, designation, the requested id)
\* holds it escaped for markup, the page <title> included.
EscapedEverywhere ==
  last.res.type = "text/html; charset=utf-8" =>
    LET page == last.res.body
    IN CASE page.content.kind = "form" ->
              \A f \in FieldNames :
                page.content[f] = Markup(NormalizedForm(last.req.body[f]))
         [] page.content.kind = "card-not-found" ->
              page.content.id = Markup(last.req.params.id)
         [] page.content.kind = "card" ->
              LET card == cards[last.req.params.id]
                  name == Markup(Flatten(<<card.firstName, <<" ">>, card.lastName>>))
              IN /\ page.content.h1 = name
                 /\ page.content.qrAlt = name
                 /\ page.content.designation = Markup(card.designation)
                 /\ page.content.idLabel = Markup(card.id)
                 /\ page.title = name \o <<" ", "-", " ", "V", "i", "s", "i", "t", "i", "n", "g", " ", "C", "a", "r", "d">>
         [] OTHER -> TRUE

\* the preview page of a card whose first name holds "<" has been sent with
\* the "<" unescaped in its <title>, and escaped in its heading
RawNameInTitle ==
  /\ last.req.route = "GET /card/:id"
  /\ last.res.status = 200
  /\ Contains(last.res.body.title, <<"<">>)
  /\ ~Contains(last.res.body.content.h1, <<"<">>)

\* the messages of the blank fields of a body, in the order first name,
\* last name, designation
MessagesFor(body) ==
  (IF Blank(body.firstName) THEN <<RequiredMessage("firstName")>> ELSE <<>>)
  \o (IF Blank(body.lastName) THEN <<RequiredMessage("lastName")>> ELSE <<>>)
  \o (IF Blank(body.designation) THEN <<RequiredMessage("designation")>> ELSE <<>>)

\* C18: the errors the form page of a rejected POST /create lists are the
\* messages of exactly the fields that are empty after normalization, once
\* each, in the order first name, last name, designation; and a POST /create
\* goes on to the creation (and is answered 200, or 500 when the renderer
\* fails) exactly when no field is empty.
ErrorsAreTheBlankFields ==
  /\ last.req.route = "POST /create" =>
       IF MessagesFor(last.req.body) = <<>>
       THEN last.res.status \in {200, 500}
       ELSE /\ last.res.status = 400
            /\ last.res.body.content.errors = MessagesFor(last.req.body)
  /\ \A h \in Suspended("POST /create") : MessagesFor(h.req.body) = <<>>

\* a POST with a valid first name, an empty last name and a whitespace-only
\* designation has been answered with the two messages of the latter
ErrorsAreTheBlankFieldsWitness ==
  /\ last.req.route = "POST /create"
  /\ ~Blank(last.req.body.firstName)
  /\ Blank(last.req.body.lastName)
  /\ Blank(last.req.body.designation)
  /\ Len(last.res.body.content.errors) = 2

\* the handlers a step suspends, and those it resumes
SuspendedIn(before, after) ==
  { h \in BagToSet(after) : CopiesIn(h, after) > CopiesIn(h, before) }

ResumedIn(before, after) ==
  { h \in BagToSet(before) : CopiesIn(h, after) < CopiesIn(h, before) }

\* C19: every request gets one response.  A step that sends a response
\* sends it either to a request it has just received, and then suspends
\* nothing for it, or to the request of the one handler it resumes, which
\* is suspended no more; a step that suspends a handler sends nothing; and
\* a handler ceases to be suspended only in a step that sends the response
\* to its request.  A response sent has one of the statuses 200, 400, 404, 500.
OneResponsePerRequest ==
  [][ /\ last' # last /\ last'.req.route # "none" =>
           /\ last.req.route = "none"
           /\ last'.res.status \in {200, 400, 404, 500}
           /\ SuspendedIn(pending, pending') = {}
           /\ \/ pending' = pending
              \/ \E h \in BagToSet(pending) :
                   pending' = pending (-) SetToBag({h}) /\ last'.req = h.req
      /\ SuspendedIn(pending, pending') # {} =>
           /\ last' = last
           /\ \E h \in BagToSet(pending') : pending' = pending (+) SetToBag({h})
      /\ ResumedIn(pending, pending') # {} =>
           last' # last /\ last'.req.route # "none" ]_vars

\* getCardOr404 has sent the 404 for the QR route while another handler
\* is suspended
OneResponsePerRequestWitness ==
  /\ last.req.route = "GET /card/:id/qr.png"
  /\ last.res.status = 404
  /\ last.via = "handler"
  /\ pending # EmptyBag

\* the record a creation builds from the fields of body under id
RecordOf(id, body, card) ==
  /\ card.id = id
  /\ \A f \in FieldNames : card[f] = NormalizedForm(body[f])

\* C20: creations interleaved at the render await do not mix.  A POST
\* /create answered 200 names in X-Card-Url and in the file name of
\* Content-Disposition one id; the record stored under that id is the one
\* built from this request's fields; the artifact sent shows that record's
\* names, designation, id and URL; and no creation still suspended holds
\* that id.  Every suspended creation holds the record built from its own
\* request, stored under its own id.
NoCrossTalk ==
  /\ last.req.route = "POST /create" /\ last.res.status = 200 =>
       LET id == LastSegment(last.res.xCardUrl)
           art == last.res.body
           url == PublicUrl(last.req, id)
       IN /\ id \in DOMAIN cards
          /\ RecordOf(id, last.req.body, cards[id])
          /\ last.res.xCardUrl = url
          /\ last.res.disposition = FileNameOfFormat(id, art.kind)
          /\ art.fullName = InFormat(art.kind,
               Flatten(<<NormalizedForm(last.req.body.firstName), <<" ">>,
                         NormalizedForm(last.req.body.lastName)>>))
          /\ art.designation = InFormat(art.kind, NormalizedForm(last.req.body.designation))
          /\ art.idLabel = InFormat(art.kind, id)
          /\ art.qr.data = url
          /\ art.url = InFormat(art.kind, url)
          /\ \A h \in Suspended("POST /create") : h.id # id
  /\ \A h \in Suspended("POST /create") :
       /\ h.id \in DOMAIN cards
       /\ cards[h.id] = h.card
       /\ RecordOf(h.id, h.req.body, h.card)
       /\ h.cardUrl = PublicUrl(h.req, h.id)
       /\ CopiesIn(h, pending) = 1

\* a creation has been answered 200 while another creation, of other
\* fields, that was suspended together with it still awaits its renderer
NoCrossTalkWitness ==
  /\ last.req.route = "POST /create"
  /\ last.res.status = 200
  /\ \E h \in Suspended("POST /create") :
       NormalizedForm(h.req.body.firstName) # NormalizedForm(last.req.body.firstName)

=============================================================================
